---- MODULE Spec2Model ----
(***************************************************************************)
(* Model of scraper.py: the acquisition loop (scrape_loop), the durable    *)
(* writer (save_json_atomic), the shared snapshot (latest_data guarded by  *)
(* latest_data_lock), the cancellation flag (stop_event) and the Flask     *)
(* read handlers (/latest, /htmlpage).                                     *)
(***************************************************************************)
EXTENDS Integers, Sequences, FiniteSets, TLC

(* ----------------------------- bounds --------------------------------- *)
\* consecutive failed cycles explored before failures are no longer injected
MaxFails == 6
\* number of concurrent request handler threads
NumReaders == 2
\* rows of a page handed to parse_market_from_html on its own
MaxPageRows == 3
\* largest cap tried for MAX_ROWS
MaxCap == 3

(* ------------------------- program constants -------------------------- *)
POLL_INTERVAL == 2
BACKOFF_CAP == 30
\* MAX_ROWS = None: Python tests "if MAX_ROWS and ...", None and 0 are both falsy
MAX_ROWS == 0

(* ------------------------------ values -------------------------------- *)
\* rows of the rendered page: the non-empty text parts of one table row
RowBTC == <<"BTC", "50000", "+1%">>
RowETH == <<"ETH", "3000", "-2%", "Trade">>
RowLoading == <<"Loading">>
RowShort == <<"BNB", "600">>
\* pages the renderer may return (page_source), as the sequence of selected rows
HtmlPages ==
  { <<>>, <<RowLoading>>, <<RowBTC>>, <<RowLoading, RowBTC, RowETH>> }

Min(a, b) == IF a < b THEN a ELSE b

\* variant: the cap is tested with > instead of >=
RECURSIVE ParseRowsLate(_, _, _)
ParseRowsLate(rows, results, max) ==
  IF rows = <<>> THEN results
  ELSE LET parts == Head(rows)
           res1 == IF Len(parts) >= 3
                   THEN Append(results, [pair |-> parts[1], price |-> parts[2],
                                         change_24h |-> parts[3]])
                   ELSE results
       IN IF max # 0 /\ Len(res1) > max THEN res1
          ELSE ParseRowsLate(Tail(rows), res1, max)

\* parse_market_from_html: rows with at least three parts become records, in
\* document order, stopping once max rows were collected (max = 0: unbounded)
RECURSIVE ParseRows(_, _, _)
ParseRows(rows, results, max) ==
  IF rows = <<>> THEN results
  ELSE LET parts == Head(rows)
           res1 == IF Len(parts) >= 3
                   THEN Append(results, [pair |-> parts[1], price |-> parts[2],
                                         change_24h |-> parts[3]])
                   ELSE results
       IN IF max # 0 /\ Len(res1) >= max THEN res1
          ELSE ParseRows(Tail(rows), res1, max)

\* Python truthiness of a list
Truthy(data) == data # <<>>

\* contents of a file on disk
Absent == [st |-> "absent", json |-> <<>>]
Partial == [st |-> "partial", json |-> <<>>]
\* the complete serialization of data, written but not yet forced to disk
Unsynced(data) == [st |-> "unsynced", json |-> data]
\* the complete serialization of data, on stable storage
Full(data) == [st |-> "full", json |-> data]
\* what a file holds after the machine went down: unsynced contents may be cut short
AfterCrash(f) == IF f.st = "unsynced" THEN {Partial, Full(f.json)} ELSE {f}

Readers == 1 .. NumReaders
\* lock holder id of the scrape_loop thread
LoopThread == 0

VARIABLES
  pc,               \* position of scrape_loop
  driver,           \* "none" | "live": the local variable driver
  backoff,          \* the local variable backoff
  parsed,           \* the local variable parsed (cleared after its last use)
  tick,             \* iteration of the idle poll for-loop
  latest_data,      \* the global latest_data
  latest_data_lock, \* the set of threads inside "with latest_data_lock:"
  stop_event,       \* the global stop_event
  alive,            \* FALSE once the process was killed
  wpc,              \* position inside save_json_atomic ("idle": not running)
  wdata,            \* argument data of the running save_json_atomic call
  wres,             \* how the call ended: "ok", "failed", "noop", "raised"
  wfail,            \* the steps of the running call that failed
  tmp_path,         \* the file at tmp_path, made by mkstemp in the running call
  JSON_FILE,        \* the file at JSON_FILE (the primary)
  BACKUP_FILE,      \* the file at BACKUP_FILE
  prePrimary,       \* history: JSON_FILE when the running call began
  nOk,              \* history: calls that completed os.replace (capped at 2)
  prevOk,           \* history: data written by the completed call before the last
  lastOk,           \* history: data written by the last completed call
  fails,            \* history: failed cycles since the last completed success branch
  rd,               \* the request handler threads
  clients,          \* browsers started by create_driver() and not yet quit
  markup,           \* the argument html of a parse_market_from_html call
  max_rows          \* the global MAX_ROWS

vars ==
  << pc, driver, backoff, parsed, tick, latest_data, latest_data_lock,
     stop_event, alive, wpc, wdata, wres, wfail, tmp_path, JSON_FILE,
     BACKUP_FILE, prePrimary, nOk, prevOk, lastOk, fails, rd, clients,
     markup, max_rows >>

loopVars == << pc, driver, backoff, parsed, tick, fails, clients >>
writerVars == << wpc, wdata, wres, wfail, prePrimary >>
fileVars == << tmp_path, JSON_FILE, BACKUP_FILE >>
histVars == << nOk, prevOk, lastOk >>
parserVars == << markup, max_rows >>

\* lines 104-123, with the configured cap (line 43)
parse_market_from_html(html) == ParseRows(html, <<>>, max_rows)

\* a snapshot an earlier run of the program may have left in JSON_FILE
OldSnapshot == parse_market_from_html(<<RowBTC>>)

IdleReader == [pc |-> "idle", kind |-> "none", status |-> 0, count |-> 0, data |-> <<>>]

Init ==
  /\ max_rows = MAX_ROWS
  /\ markup = <<>>
  /\ clients = 0
  /\ pc = "top"
  /\ driver = "none"
  /\ backoff = 1
  /\ parsed = <<>>
  /\ tick = 0
  /\ latest_data = <<>>
  /\ latest_data_lock = {}
  /\ stop_event = FALSE
  /\ alive = TRUE
  /\ wpc = "idle"
  /\ wdata = <<>>
  /\ wres = "none"
  /\ wfail = {}
  /\ tmp_path = Absent
  /\ JSON_FILE \in {Absent, Full(OldSnapshot)}
  /\ BACKUP_FILE = Absent
  /\ prePrimary = Absent
  /\ nOk = 0
  /\ prevOk = <<>>
  /\ lastOk = <<>>
  /\ fails = 0
  /\ rd = [r \in Readers |-> IdleReader]

\* line 170: range(int(POLL_INTERVAL * 10))
PollTicks == POLL_INTERVAL * 10

\* fault injection is bounded: no further exception once MaxFails cycles failed in a row
CanFail == fails < MaxFails

\* variant: the emptiness test of save_json_atomic is missing
SaveEntryUnchecked(data) == "mkstemp"

\* save_json_atomic, lines 60-61: "if not data: return"
SaveEntry(data) == IF ~Truthy(data) THEN "ret" ELSE "mkstemp"

\* the loop thread calls save_json_atomic(JSON_FILE, data, backup_path=BACKUP_FILE)
CallSave(data) ==
  /\ wdata' = data
  /\ wpc' = SaveEntry(data)
  /\ wres' = IF Truthy(data) THEN "none" ELSE "noop"
  /\ wfail' = {}
  /\ prePrimary' = JSON_FILE

\* the loop thread takes over after save_json_atomic ended; tmp_path stands for
\* the temp file of the running call only: one left behind is no longer tracked
EndSave ==
  /\ wpc' = "idle"
  /\ wdata' = <<>>
  /\ wres' = "none"
  /\ wfail' = {}
  /\ prePrimary' = Absent
  /\ tmp_path' = Absent
  /\ UNCHANGED << JSON_FILE, BACKUP_FILE >>

Running == alive /\ wpc = "idle"

(* --------------------------- scrape_loop ------------------------------ *)
\* line 137 "while not stop_event.is_set()", line 139 "if driver is None",
\* lines 145-148 (scroll to top; its exception is swallowed)
LoopTop ==
  /\ Running /\ pc = "top"
  /\ pc' = IF stop_event THEN "exit"
           ELSE IF driver = "none" THEN "create" ELSE "fetch"
  /\ UNCHANGED << driver, backoff, parsed, tick, fails, latest_data,
                  latest_data_lock, stop_event, alive, writerVars, fileVars,
                  histVars, rd, clients, parserVars >>

\* line 141, create_driver() returns: a browser was started (line 98)
CreateDriver ==
  /\ Running /\ pc = "create"
  /\ driver' = "live"
  /\ clients' = clients + 1
  /\ pc' = "get"
  /\ UNCHANGED << backoff, parsed, tick, fails, latest_data, latest_data_lock,
                  stop_event, alive, writerVars, fileVars, histVars, rd,
                  parserVars >>

\* line 141, create_driver() raises: driver stays None
CreateDriverFails ==
  /\ Running /\ pc = "create" /\ CanFail
  /\ pc' = "except"
  /\ UNCHANGED << driver, backoff, parsed, tick, fails, latest_data,
                  latest_data_lock, stop_event, alive, writerVars, fileVars,
                  histVars, rd, clients, parserVars >>

\* line 142, driver.get(TARGET_URL)
DriverGet ==
  /\ Running /\ pc = "get"
  /\ pc' = "warmup"
  /\ UNCHANGED << driver, backoff, parsed, tick, fails, latest_data,
                  latest_data_lock, stop_event, alive, writerVars, fileVars,
                  histVars, rd, clients, parserVars >>

DriverGetFails ==
  /\ Running /\ pc = "get" /\ CanFail
  /\ pc' = "except"
  /\ UNCHANGED << driver, backoff, parsed, tick, fails, latest_data,
                  latest_data_lock, stop_event, alive, writerVars, fileVars,
                  histVars, rd, clients, parserVars >>

\* line 143, time.sleep(INITIAL_LOAD_DELAY)
WarmupSleep ==
  /\ Running /\ pc = "warmup"
  /\ pc' = "fetch"
  /\ UNCHANGED << driver, backoff, parsed, tick, fails, latest_data,
                  latest_data_lock, stop_event, alive, writerVars, fileVars,
                  histVars, rd, clients, parserVars >>

\* variant: the branch on "if parsed:" is missing, every result is stored
AfterParseAlwaysStore(p) == "store"

\* line 153 "if parsed:" / line 159 "else:"
AfterParse(p) == IF Truthy(p) THEN "store" ELSE "copy"

\* lines 150-151: html = driver.page_source; parsed = parse_market_from_html(html)
Fetch ==
  /\ Running /\ pc = "fetch"
  /\ \E html \in HtmlPages :
       /\ parsed' = parse_market_from_html(html)
       /\ pc' = AfterParse(parsed')
  /\ UNCHANGED << driver, backoff, tick, fails, latest_data, latest_data_lock,
                  stop_event, alive, writerVars, fileVars, histVars, rd,
                  clients, parserVars >>

\* line 150, driver.page_source raises
FetchFails ==
  /\ Running /\ pc = "fetch" /\ CanFail
  /\ pc' = "except"
  /\ UNCHANGED << driver, backoff, parsed, tick, fails, latest_data,
                  latest_data_lock, stop_event, alive, writerVars, fileVars,
                  histVars, rd, clients, parserVars >>

\* variant: a lock that excludes nobody
LockIgnored == TRUE

\* "with latest_data_lock:" can be entered
LockFree == latest_data_lock = {}

\* lines 154-156: with latest_data_lock: latest_data = parsed; then the call of
\* save_json_atomic(JSON_FILE, latest_data, ...) with the lock released
StoreReplace ==
  /\ Running /\ pc = "store"
  /\ LockFree
  /\ latest_data' = parsed
  /\ CallSave(latest_data')
  /\ parsed' = <<>>
  /\ pc' = "save"
  /\ UNCHANGED << driver, backoff, tick, fails, latest_data_lock, stop_event,
                  alive, fileVars, histVars, rd, clients, parserVars >>

\* lines 157-158: the call returned; print; backoff = 1.0; on to the idle poll
SaveReturns ==
  /\ alive /\ pc = "save" /\ wpc = "ret"
  /\ backoff' = 1
  /\ fails' = 0
  /\ pc' = "poll"
  /\ tick' = 0
  /\ EndSave
  /\ UNCHANGED << driver, parsed, latest_data, latest_data_lock, stop_event,
                  alive, histVars, rd, clients, parserVars >>

\* lines 161-164: with latest_data_lock: to_save = latest_data.copy();
\* "if to_save:" save_json_atomic(JSON_FILE, to_save, ...); the local to_save
\* lives on as the argument of the call (wdata)
CopyOut ==
  /\ Running /\ pc = "copy"
  /\ LockFree
  /\ IF Truthy(latest_data)
     THEN /\ CallSave(latest_data)
          /\ pc' = "resave"
          /\ tick' = tick
     ELSE /\ pc' = "poll"
          /\ tick' = 0
          /\ UNCHANGED writerVars
  /\ UNCHANGED << driver, backoff, parsed, fails, latest_data,
                  latest_data_lock, stop_event, alive, fileVars, histVars, rd,
                  clients, parserVars >>

\* line 165: the re-save returned; on to the idle poll
ResaveReturns ==
  /\ alive /\ pc = "resave" /\ wpc = "ret"
  /\ pc' = "poll"
  /\ tick' = 0
  /\ EndSave
  /\ UNCHANGED << driver, backoff, parsed, fails, latest_data,
                  latest_data_lock, stop_event, alive, histVars, rd, clients,
                  parserVars >>

\* variant: a save that raised takes the snapshot out of the store again
SaveRaisesStoreLost ==
  /\ alive /\ pc \in {"save", "resave"} /\ wpc = "raise"
  /\ latest_data' = <<>>
  /\ pc' = "except"
  /\ EndSave
  /\ UNCHANGED << driver, backoff, parsed, tick, fails, latest_data_lock,
                  stop_event, alive, histVars, rd, clients, parserVars >>

\* lines 156 / 164 inside "try:": an exception out of save_json_atomic is caught at 175
SaveRaises ==
  /\ alive /\ pc \in {"save", "resave"} /\ wpc = "raise"
  /\ pc' = "except"
  /\ EndSave
  /\ UNCHANGED << driver, backoff, parsed, tick, fails, latest_data,
                  latest_data_lock, stop_event, alive, histVars, rd, clients,
                  parserVars >>

\* lines 170-173: one iteration of the poll loop that sleeps 0.1
PollTick ==
  /\ Running /\ pc = "poll"
  /\ tick < PollTicks /\ ~stop_event
  /\ tick' = tick + 1
  /\ UNCHANGED << pc, driver, backoff, parsed, fails, latest_data,
                  latest_data_lock, stop_event, alive, writerVars, fileVars,
                  histVars, rd, clients, parserVars >>

\* lines 170-172: the poll loop ends (range exhausted, or stop_event seen: break)
PollEnd ==
  /\ Running /\ pc = "poll"
  /\ tick = PollTicks \/ stop_event
  /\ pc' = "top"
  /\ tick' = 0
  /\ UNCHANGED << driver, backoff, parsed, fails, latest_data,
                  latest_data_lock, stop_event, alive, writerVars, fileVars,
                  histVars, rd, clients, parserVars >>

\* lines 178-181 / 199-201: "if driver: driver.quit()", errors swallowed; the
\* browser counts as released once quit was attempted
AfterQuit(d, n) == IF d = "live" THEN n - 1 ELSE n

\* variant: the handler keeps the reference to the browser it quit
AfterReleaseKept(d) == d

\* lines 182-186: driver = None, whether or not quit raised
AfterRelease(d) == "none"

\* lines 175-186: the exception is caught; driver.quit() (errors swallowed); driver = None
Except ==
  /\ Running /\ pc = "except"
  /\ clients' = AfterQuit(driver, clients)
  /\ driver' = AfterRelease(driver)
  /\ fails' = fails + 1
  /\ pc' = "errlock"
  /\ UNCHANGED << backoff, parsed, tick, latest_data, latest_data_lock,
                  stop_event, alive, writerVars, fileVars, histVars, rd,
                  parserVars >>

\* variant: the handler does not re-save
ErrorResaveNever(d) == FALSE

\* line 190: "if latest_data:"
ErrorResave(d) == Truthy(d)

\* lines 189-191: with latest_data_lock: if latest_data: save_json_atomic(...)
\* the call runs inside the with block, the lock stays held
ErrLock ==
  /\ Running /\ pc = "errlock"
  /\ LockFree
  /\ IF ErrorResave(latest_data)
     THEN /\ latest_data_lock' = {LoopThread}
          /\ CallSave(latest_data)
          /\ pc' = "errsave"
     ELSE /\ pc' = "sleep"
          /\ UNCHANGED << latest_data_lock, writerVars >>
  /\ UNCHANGED << driver, backoff, parsed, tick, fails, latest_data,
                  stop_event, alive, fileVars, histVars, rd, clients,
                  parserVars >>

\* line 192: the call returned; print; the with block ends
ErrSaveReturns ==
  /\ alive /\ pc = "errsave" /\ wpc = "ret"
  /\ latest_data_lock' = latest_data_lock \ {LoopThread}
  /\ pc' = "sleep"
  /\ EndSave
  /\ UNCHANGED << driver, backoff, parsed, tick, fails, latest_data,
                  stop_event, alive, histVars, rd, clients, parserVars >>

\* line 191 is inside "except ...:", outside any "try:": an exception of
\* save_json_atomic leaves the with block (lock released) and scrape_loop
ErrSaveRaises ==
  /\ alive /\ pc = "errsave" /\ wpc = "raise"
  /\ latest_data_lock' = latest_data_lock \ {LoopThread}
  /\ pc' = "raised"
  /\ EndSave
  /\ UNCHANGED << driver, backoff, parsed, tick, fails, latest_data,
                  stop_event, alive, histVars, rd, clients, parserVars >>

\* variant: the sleep is not capped
DelayUncapped(b) == b

\* line 193: the argument of time.sleep
Delay(b) == Min(b, BACKOFF_CAP)

\* line 194: backoff *= 2.0
NextBackoff(b) == b * 2

\* lines 193-195: time.sleep(min(backoff, 30)); backoff *= 2.0; continue
BackoffSleep ==
  /\ Running /\ pc = "sleep"
  /\ backoff' = NextBackoff(backoff)
  /\ pc' = "top"
  /\ UNCHANGED << driver, parsed, tick, fails, latest_data, latest_data_lock,
                  stop_event, alive, writerVars, fileVars, histVars, rd,
                  clients, parserVars >>

\* lines 198-203: after the while loop: driver.quit() if held; the function returns
LoopExit ==
  /\ Running /\ pc = "exit"
  /\ clients' = AfterQuit(driver, clients)
  /\ driver' = "none"
  /\ pc' = "stopped"
  /\ UNCHANGED << backoff, parsed, tick, fails, latest_data, latest_data_lock,
                  stop_event, alive, writerVars, fileVars, histVars, rd,
                  parserVars >>

\* lines 274-276 handle_signal, line 295 (finally of __main__): stop_event.set()
SetStop ==
  /\ alive /\ ~stop_event
  /\ stop_event' = TRUE
  /\ UNCHANGED << loopVars, latest_data, latest_data_lock, alive, writerVars,
                  fileVars, histVars, rd, parserVars >>

(* ------------------------- save_json_atomic --------------------------- *)
InSave(at) == alive /\ wpc = at

\* line 64: fd, tmp_path = tempfile.mkstemp(dir=dir_path): a new, empty file
Mkstemp ==
  /\ InSave("mkstemp")
  /\ tmp_path' = Partial
  /\ wpc' = "dump"
  /\ UNCHANGED << loopVars, latest_data, latest_data_lock, stop_event, alive,
                  wdata, wres, wfail, prePrimary, JSON_FILE, BACKUP_FILE,
                  histVars, rd, parserVars >>

\* line 64 is before "try:": an OSError of mkstemp leaves save_json_atomic
MkstempFails ==
  /\ InSave("mkstemp") /\ CanFail
  /\ wfail' = wfail \cup {"mkstemp"}
  /\ wres' = "raised"
  /\ wpc' = "raise"
  /\ UNCHANGED << loopVars, latest_data, latest_data_lock, stop_event, alive,
                  wdata, prePrimary, fileVars, histVars, rd, parserVars >>

\* lines 66-67: os.fdopen(fd, "w"); json.dump(data, f, indent=4, ensure_ascii=False)
Dump ==
  /\ InSave("dump")
  /\ tmp_path' = Unsynced(wdata)
  /\ wpc' = "fsync"
  /\ UNCHANGED << loopVars, latest_data, latest_data_lock, stop_event, alive,
                  wdata, wres, wfail, prePrimary, JSON_FILE, BACKUP_FILE,
                  histVars, rd, parserVars >>

\* lines 66-67 raise (the with block closes f): the temp file is left cut short
DumpFails ==
  /\ InSave("dump")
  /\ wfail' = wfail \cup {"dump"}
  /\ wpc' = "handler"
  /\ UNCHANGED << loopVars, latest_data, latest_data_lock, stop_event, alive,
                  wdata, wres, prePrimary, fileVars, histVars, rd, parserVars >>

\* variant: the temp file is closed without flush and fsync
FsyncSkipped ==
  /\ InSave("fsync")
  /\ wpc' = "bkp"
  /\ UNCHANGED << loopVars, latest_data, latest_data_lock, stop_event, alive,
                  wdata, wres, wfail, prePrimary, fileVars, histVars, rd,
                  parserVars >>

\* lines 68-69: f.flush(); os.fsync(f.fileno()); the with block closes f
Fsync ==
  /\ InSave("fsync")
  /\ tmp_path' = Full(tmp_path.json)
  /\ wpc' = "bkp"
  /\ UNCHANGED << loopVars, latest_data, latest_data_lock, stop_event, alive,
                  wdata, wres, wfail, prePrimary, JSON_FILE, BACKUP_FILE,
                  histVars, rd, parserVars >>

FsyncFails ==
  /\ InSave("fsync")
  /\ wfail' = wfail \cup {"fsync"}
  /\ wpc' = "handler"
  /\ UNCHANGED << loopVars, latest_data, latest_data_lock, stop_event, alive,
                  wdata, wres, prePrimary, fileVars, histVars, rd, parserVars >>

\* line 70: "if backup_path and os.path.exists(path)" is false: no primary yet
BackupSkip ==
  /\ InSave("bkp")
  /\ JSON_FILE = Absent
  /\ wpc' = "replace"
  /\ UNCHANGED << loopVars, latest_data, latest_data_lock, stop_event, alive,
                  wdata, wres, wfail, prePrimary, fileVars, histVars, rd,
                  parserVars >>

\* variant: the backup is taken of the new file instead of the old one
BackupSourceTmp == tmp_path

\* line 72: the file shutil.copy2 copies to backup_path
BackupSource == JSON_FILE

\* lines 70-72: shutil.copy2(path, backup_path)
BackupCopy ==
  /\ InSave("bkp")
  /\ JSON_FILE # Absent
  /\ BACKUP_FILE' = BackupSource
  /\ wpc' = "replace"
  /\ UNCHANGED << loopVars, latest_data, latest_data_lock, stop_event, alive,
                  wdata, wres, wfail, prePrimary, tmp_path, JSON_FILE,
                  histVars, rd, parserVars >>

\* variant: an error of the backup copy is handled like any other write error
AfterBackupErrorAbort == "handler"

\* lines 73-75: "except Exception as e: print(...)" falls through to os.replace
AfterBackupError == "replace"

\* lines 72-74: shutil.copy2 raises (before or after truncating the target);
\* the warning is printed and the write goes on
BackupCopyFails ==
  /\ InSave("bkp")
  /\ JSON_FILE # Absent
  /\ \E b \in {BACKUP_FILE, Partial} : BACKUP_FILE' = b
  /\ wfail' = wfail \cup {"backup"}
  /\ wpc' = AfterBackupError
  /\ UNCHANGED << loopVars, latest_data, latest_data_lock, stop_event, alive,
                  wdata, wres, prePrimary, tmp_path, JSON_FILE, histVars, rd,
                  parserVars >>

\* line 75: os.replace(tmp_path, path); the function returns
Replace ==
  /\ InSave("replace")
  /\ JSON_FILE' = tmp_path
  /\ tmp_path' = Absent
  /\ wres' = "ok"
  /\ wpc' = "ret"
  /\ nOk' = Min(nOk + 1, 2)
  /\ prevOk' = lastOk
  /\ lastOk' = wdata
  /\ UNCHANGED << loopVars, latest_data, latest_data_lock, stop_event, alive,
                  wdata, wfail, prePrimary, BACKUP_FILE, rd, parserVars >>

\* line 75 raises
ReplaceFails ==
  /\ InSave("replace")
  /\ wfail' = wfail \cup {"replace"}
  /\ wpc' = "handler"
  /\ UNCHANGED << loopVars, latest_data, latest_data_lock, stop_event, alive,
                  wdata, wres, prePrimary, fileVars, histVars, rd, parserVars >>

\* variant: the error handler does not remove the temp file
HandlerKeepsTmp ==
  /\ InSave("handler")
  /\ wres' = "failed"
  /\ wpc' = "ret"
  /\ UNCHANGED << loopVars, latest_data, latest_data_lock, stop_event, alive,
                  wdata, wfail, prePrimary, fileVars, histVars, rd, parserVars >>

\* lines 76-80: the error is printed; os.remove(tmp_path); the function returns
HandlerRemove ==
  /\ InSave("handler")
  /\ tmp_path' = Absent
  /\ wres' = "failed"
  /\ wpc' = "ret"
  /\ UNCHANGED << loopVars, latest_data, latest_data_lock, stop_event, alive,
                  wdata, wfail, prePrimary, JSON_FILE, BACKUP_FILE, histVars,
                  rd, parserVars >>

\* lines 79-82: os.remove raises and "except Exception: pass" swallows it
HandlerRemoveFails ==
  /\ InSave("handler")
  /\ wfail' = wfail \cup {"remove"}
  /\ wres' = "failed"
  /\ wpc' = "ret"
  /\ UNCHANGED << loopVars, latest_data, latest_data_lock, stop_event, alive,
                  wdata, prePrimary, fileVars, histVars, rd, parserVars >>

\* the process is killed, or the machine goes down, while save_json_atomic runs
\* (scrape_loop is a daemon thread: line 287, and line 296 joins it for 5 s only)
Crash ==
  /\ alive /\ wpc \in {"mkstemp", "dump", "fsync", "bkp", "replace", "handler"}
  /\ alive' = FALSE
  /\ \E t \in AfterCrash(tmp_path), p \in AfterCrash(JSON_FILE) :
       /\ tmp_path' = t
       /\ JSON_FILE' = p
  /\ UNCHANGED << loopVars, latest_data, latest_data_lock, stop_event,
                  writerVars, BACKUP_FILE, histVars, rd, parserVars >>

\* the same, in the middle of shutil.copy2 (line 72): the backup is cut short
CrashInCopy ==
  /\ InSave("bkp")
  /\ JSON_FILE # Absent
  /\ alive' = FALSE
  /\ BACKUP_FILE' = Partial
  /\ UNCHANGED << loopVars, latest_data, latest_data_lock, stop_event,
                  writerVars, tmp_path, JSON_FILE, histVars, rd, parserVars >>

(* ------------------------- request handlers --------------------------- *)
\* variant: the emptiness test of the handlers is missing
NoDataYetNever(d) == FALSE

\* lines 238 / 262: "if not latest_data:"
NoDataYet(d) == ~Truthy(d)

\* lines 237-239 / 261-263: with latest_data_lock: if not latest_data: return error, 503
HandlerEnter(r) ==
  /\ alive /\ rd[r].pc = "idle"
  /\ LockFree
  /\ latest_data_lock' = {r}
  /\ \E k \in {"latest", "htmlpage"} :
       rd' = [rd EXCEPT ![r] =
                IF NoDataYet(latest_data)
                THEN [pc |-> "resp", kind |-> k, status |-> 503, count |-> 0,
                      data |-> <<>>]
                ELSE [pc |-> IF k = "latest" THEN "count" ELSE "rows",
                      kind |-> k, status |-> 0, count |-> 0, data |-> <<>>]]
  /\ UNCHANGED << loopVars, latest_data, stop_event, alive, writerVars,
                  fileVars, histVars, parserVars >>

\* line 266: "count": len(latest_data)
LatestCount(r) ==
  /\ alive /\ rd[r].pc = "count"
  /\ rd' = [rd EXCEPT ![r].count = Len(latest_data), ![r].pc = "data"]
  /\ UNCHANGED << loopVars, latest_data, latest_data_lock, stop_event, alive,
                  writerVars, fileVars, histVars, parserVars >>

\* lines 264-268: "data": latest_data; jsonify builds the 200 response
LatestData(r) ==
  /\ alive /\ rd[r].pc = "data"
  /\ rd' = [rd EXCEPT ![r].data = latest_data, ![r].status = 200,
                      ![r].pc = "resp"]
  /\ UNCHANGED << loopVars, latest_data, latest_data_lock, stop_event, alive,
                  writerVars, fileVars, histVars, parserVars >>

\* lines 241-257: one table row per item of latest_data; the page is returned (200)
HtmlRows(r) ==
  /\ alive /\ rd[r].pc = "rows"
  /\ rd' = [rd EXCEPT ![r].data = latest_data, ![r].count = Len(latest_data),
                      ![r].status = 200, ![r].pc = "resp"]
  /\ UNCHANGED << loopVars, latest_data, latest_data_lock, stop_event, alive,
                  writerVars, fileVars, histVars, parserVars >>

\* the with block ends and the response is sent
HandlerReturn(r) ==
  /\ alive /\ rd[r].pc = "resp"
  /\ latest_data_lock' = latest_data_lock \ {r}
  /\ rd' = [rd EXCEPT ![r] = IdleReader]
  /\ UNCHANGED << loopVars, latest_data, stop_event, alive, writerVars,
                  fileVars, histVars, parserVars >>

(* -------------------------- update_data_loop -------------------------- *)
\* lines 208-220: a dict of random values replaces latest_data under the lock
\* (kept here as a one-element list, so that it compares with the snapshots)
UpdateDataLoop ==
  /\ alive /\ ~stop_event
  /\ LockFree
  /\ latest_data' = << [timestamp |-> "now", price |-> "random", volume |-> "random"] >>
  /\ UNCHANGED << loopVars, latest_data_lock, stop_event, alive, writerVars,
                  fileVars, histVars, rd, parserVars >>

(* --------------------------- specification ---------------------------- *)
Loop ==
  \/ LoopTop \/ CreateDriver \/ CreateDriverFails \/ DriverGet \/ DriverGetFails
  \/ WarmupSleep \/ Fetch \/ FetchFails \/ StoreReplace \/ SaveReturns
  \/ CopyOut \/ ResaveReturns \/ SaveRaises \/ PollTick \/ PollEnd \/ Except
  \/ ErrLock \/ ErrSaveReturns \/ ErrSaveRaises \/ BackoffSleep \/ LoopExit

Save ==
  \/ Mkstemp \/ MkstempFails \/ Dump \/ DumpFails \/ Fsync \/ FsyncFails
  \/ BackupSkip \/ BackupCopy \/ BackupCopyFails \/ Replace \/ ReplaceFails
  \/ HandlerRemove \/ HandlerRemoveFails

Handlers ==
  \E r \in Readers :
    \/ HandlerEnter(r) \/ LatestCount(r) \/ LatestData(r) \/ HtmlRows(r)
    \/ HandlerReturn(r)

\* variant: __main__ starts update_data_loop as well
ThreadsWithUpdater == Loop \/ UpdateDataLoop

\* lines 287-288: the one background thread __main__ starts runs scrape_loop
Threads == Loop

Next == Threads \/ Save \/ SetStop \/ Crash \/ CrashInCopy \/ Handlers

Spec == Init /\ [][Next]_vars

(* ----------- parse_market_from_html called on its own ---------------- *)
\* the pages of at most MaxPageRows rows
Pages ==
  UNION { [1 .. n -> {RowBTC, RowETH, RowLoading, RowShort}] : n \in 0 .. MaxPageRows }

InitParse ==
  /\ max_rows \in 0 .. MaxCap
  /\ markup \in Pages
  /\ clients = 0
  /\ pc = "parse"
  /\ driver = "none"
  /\ backoff = 1
  /\ parsed = <<>>
  /\ tick = 0
  /\ latest_data = <<>>
  /\ latest_data_lock = {}
  /\ stop_event = FALSE
  /\ alive = TRUE
  /\ wpc = "idle"
  /\ wdata = <<>>
  /\ wres = "none"
  /\ wfail = {}
  /\ tmp_path = Absent
  /\ JSON_FILE = Absent
  /\ BACKUP_FILE = Absent
  /\ prePrimary = Absent
  /\ nOk = 0
  /\ prevOk = <<>>
  /\ lastOk = <<>>
  /\ fails = 0
  /\ rd = [r \in Readers |-> IdleReader]

\* parsed = parse_market_from_html(markup)
ParseCall ==
  /\ pc = "parse"
  /\ parsed' = parse_market_from_html(markup)
  /\ pc' = "parsed"
  /\ UNCHANGED << driver, backoff, tick, fails, clients, latest_data,
                  latest_data_lock, stop_event, alive, writerVars, fileVars,
                  histVars, rd, parserVars >>

ParseSpec == InitParse /\ [][ParseCall]_vars

(* -------------- save_json_atomic called on its own ------------------- *)
\* arguments data of a call: the empty list and the non-empty snapshots
CallerData == { parse_market_from_html(h) : h \in HtmlPages }

\* what JSON_FILE or BACKUP_FILE may hold before a call: earlier complete writes
DiskFiles == {Absent} \cup { Full(d) : d \in CallerData \ {<<>>} }

InitSave ==
  /\ max_rows = MAX_ROWS
  /\ markup = <<>>
  /\ clients = 0
  /\ pc = "caller"
  /\ driver = "none"
  /\ backoff = 1
  /\ parsed = <<>>
  /\ tick = 0
  /\ latest_data = <<>>
  /\ latest_data_lock = {}
  /\ stop_event = FALSE
  /\ alive = TRUE
  /\ wpc = "idle"
  /\ wdata = <<>>
  /\ wres = "none"
  /\ wfail = {}
  /\ tmp_path = Absent
  /\ JSON_FILE \in DiskFiles
  /\ BACKUP_FILE \in DiskFiles \cup {Partial}
  /\ prePrimary = Absent
  /\ nOk = 0
  /\ prevOk = <<>>
  /\ lastOk = <<>>
  /\ fails = 0
  /\ rd = [r \in Readers |-> IdleReader]

\* save_json_atomic(JSON_FILE, data, backup_path=BACKUP_FILE) is called
CallerCalls ==
  /\ Running /\ pc = "caller"
  /\ \E data \in CallerData : CallSave(data)
  /\ pc' = "called"
  /\ UNCHANGED << driver, backoff, parsed, tick, fails, clients, latest_data,
                  latest_data_lock, stop_event, alive, fileVars, histVars, rd,
                  parserVars >>

\* the call returned or raised; the caller may call again
CallerResumes ==
  /\ alive /\ pc = "called" /\ wpc \in {"ret", "raise"}
  /\ EndSave
  /\ pc' = "caller"
  /\ UNCHANGED << driver, backoff, parsed, tick, fails, clients, latest_data,
                  latest_data_lock, stop_event, alive, histVars, rd,
                  parserVars >>

NextSave == CallerCalls \/ CallerResumes \/ Save \/ Crash \/ CrashInCopy

SaveSpec == InitSave /\ [][NextSave]_vars

\* a request that was accepted is served to the end (app.run(threaded=True), line 293)
HandlerFinish ==
  \E r \in Readers :
    LatestCount(r) \/ LatestData(r) \/ HtmlRows(r) \/ HandlerReturn(r)

\* scheduling: the loop thread (line 287-288) keeps running, a lock it waits
\* for is granted once it is free often enough, and a save_json_atomic call
\* or a request under way goes on
FairSpec ==
  /\ Init /\ [][Next]_vars
  /\ SF_vars(Loop)
  /\ WF_vars(Save)
  /\ WF_vars(HandlerFinish)

(* ------------------------------ claims -------------------------------- *)
\* C1 (no-regress): once latest_data holds at least one record no step makes
\* it empty, and the only step that changes latest_data is the replacement by
\* a non-empty parse result; an empty extraction never replaces it.
C1_NoRegress ==
  [][ /\ Truthy(latest_data) => Truthy(latest_data')
      /\ latest_data' # latest_data =>
           (pc = "store" /\ Truthy(parsed) /\ latest_data' = parsed) ]_vars

\* an empty extraction came in while the store held data, and its cycle re-saved
C1_Witness == pc = "resave" /\ wpc = "ret" /\ parsed = <<>> /\ Truthy(latest_data)

\* C2 (atomicity): JSON_FILE is never cut short; from the start of a
\* save_json_atomic call up to os.replace, crash states included, it is what it
\* was when the call began (absent or the old complete snapshot); once
\* os.replace completed it is exactly the serialization of the new snapshot.
C2_Atomicity ==
  /\ JSON_FILE.st \in {"absent", "full"}
  /\ wpc \in {"mkstemp", "dump", "fsync", "bkp", "replace", "handler", "raise"}
       => JSON_FILE = prePrimary
  /\ (wpc = "ret" /\ wres = "ok") => JSON_FILE = Full(wdata)

\* killed right before os.replace, the old primary is still there, not the new one
C2_Witness ==
  /\ ~alive /\ wpc = "replace"
  /\ JSON_FILE.st = "full" /\ tmp_path.st = "full" /\ JSON_FILE # tmp_path

\* C3 (backup correctness): when a save_json_atomic call whose backup copy did
\* not fail completes os.replace, and it is at least the second call to do
\* so, BACKUP_FILE holds the snapshot the previous completed call wrote, which
\* is what JSON_FILE held just before this replacement.
C3_BackupCorrect ==
  (wpc = "ret" /\ wres = "ok" /\ nOk >= 2 /\ "backup" \notin wfail)
    => (BACKUP_FILE = Full(prevOk) /\ BACKUP_FILE = prePrimary)

\* a second write of a different snapshot completed, the backup holds the older one
C3_Witness ==
  /\ wpc = "ret" /\ wres = "ok" /\ nOk >= 2 /\ "backup" \notin wfail
  /\ BACKUP_FILE # JSON_FILE

C5_ReadSafety ==
  \A r \in Readers :
    /\ rd[r].pc = "data" => rd[r].count = Len(latest_data)
    /\ (rd[r].pc = "resp" /\ rd[r].status = 200) =>
         /\ Truthy(rd[r].data)
         /\ rd[r].data = latest_data
         /\ rd[r].count = Len(rd[r].data)

\* a handler built its response from the old snapshot while the loop waits to
\* replace it with a different one
C5_Witness ==
  \E r \in Readers :
    /\ rd[r].pc = "resp" /\ rd[r].status = 200
    /\ pc = "store" /\ parsed # latest_data

\* C6 (/latest): the response is 503 with the bare error payload exactly when
\* latest_data is empty at the read, and otherwise 200 with the count and the
\* records of latest_data; nothing else is ever returned, whatever state the
\* loop is in.
C6_LatestResponse ==
  \A r \in Readers :
    (rd[r].pc = "resp" /\ rd[r].kind = "latest") =>
      /\ rd[r].status \in {200, 503}
      /\ rd[r].status = 503 <=> latest_data = <<>>
      /\ rd[r].status = 503 => (rd[r].data = <<>> /\ rd[r].count = 0)
      /\ rd[r].status = 200 =>
           (rd[r].data = latest_data /\ rd[r].count = Len(latest_data))

\* /latest answered 503 while the loop, nothing acquired yet, backs off after a failure
C6_Witness ==
  \E r \in Readers :
    /\ rd[r].pc = "resp" /\ rd[r].kind = "latest" /\ rd[r].status = 503
    /\ pc = "sleep" /\ fails >= 1

\* C7 (no error escapes the loop): scrape_loop never ends by an exception.
C7_NoErrorEscapes == pc # "raised"

\* C8 (the writer absorbs its failures): no save_json_atomic call ends by raising.
C8_WriterAbsorbs == wpc # "raise"

\* C9 (failure leaves no trace), as claimed: when a call ends in which a step
\* before the rename failed (temp creation, serialization, flush/fsync, backup
\* copy), JSON_FILE is unchanged and the call's temp file is gone.
C9_NoTrace ==
  (wpc \in {"ret", "raise"} /\ wfail \cap {"mkstemp", "dump", "fsync", "backup"} # {})
    => (JSON_FILE = prePrimary /\ tmp_path = Absent)

\* C9 amended: when a call ends in which temp creation, serialization or
\* flush/fsync failed, JSON_FILE is unchanged, and the call's temp file is gone
\* unless os.remove failed as well; a failed backup copy alone does not stop
\* the write, which ends with the temp file renamed onto JSON_FILE.
C9_NoTraceAmended ==
  /\ (wpc \in {"ret", "raise"} /\ wfail \cap {"mkstemp", "dump", "fsync"} # {})
       => /\ JSON_FILE = prePrimary
          /\ "remove" \notin wfail => tmp_path = Absent
  /\ (wpc = "ret" /\ wfail = {"backup"})
       => (JSON_FILE = Full(wdata) /\ tmp_path = Absent)

\* fsync failed with a primary on disk: the primary is as before, the temp file removed
C9_Witness ==
  /\ wpc = "ret" /\ wfail = {"fsync"}
  /\ JSON_FILE.st = "full" /\ JSON_FILE # Full(wdata)

\* C10 (immediate cancellation): once stop_event is set the loop fetches
\* nothing, replaces nothing, starts no save_json_atomic call and begins no
\* sleep (a sleep already under way when the signal came is not counted).
C10_ImmediateCancel ==
  [][ stop_event =>
        /\ ~(pc = "fetch" /\ pc' # "fetch")
        /\ latest_data' = latest_data
        /\ ~(wpc = "idle" /\ wpc' # "idle")
        /\ ~(pc' \in {"warmup", "sleep"} /\ pc' # pc)
        /\ ~(pc = "poll" /\ tick' = tick + 1) ]_vars

\* C11 (termination): once stop_event is set, the loop thread, scheduled
\* fairly in a process that stays up, reaches the end of scrape_loop; from
\* there it takes no further step, and every browser it started was quit.
C11_Termination ==
  /\ stop_event ~> (pc = "stopped" \/ ~alive)
  /\ [][pc = "stopped" => UNCHANGED << loopVars, latest_data, fileVars >>]_vars
  /\ [](pc = "stopped" => (driver = "none" /\ clients = 0))

\* C12 (an empty snapshot is never persisted): a save_json_atomic call with
\* empty data changes no file (no temp file, JSON_FILE and BACKUP_FILE as they
\* were), and JSON_FILE, when it exists, holds a non-empty snapshot.
C12_EmptyNeverPersisted ==
  /\ [][ (\/ wpc # "idle" /\ ~Truthy(wdata)
          \/ wpc' # "idle" /\ ~Truthy(wdata')) => UNCHANGED fileVars ]_vars
  /\ [](JSON_FILE # Absent => Truthy(JSON_FILE.json))

\* a call with empty data returned at once; the primary and another backup are on disk
C12_Witness ==
  /\ wpc = "ret" /\ wres = "noop" /\ wdata = <<>>
  /\ JSON_FILE.st = "full" /\ BACKUP_FILE.st = "full" /\ BACKUP_FILE # JSON_FILE

\* C19 (a failed backup copy is not fatal): whatever the backup copy does, the
\* step after it is os.replace, and a call in which only the backup copy
\* failed ends with JSON_FILE holding the new snapshot; when JSON_FILE does
\* not exist at that point nothing is copied and BACKUP_FILE stays as it was.
C19_BackupFailureNotFatal ==
  /\ [][ (wpc = "bkp" /\ alive') =>
          /\ wpc' \in {"bkp", "replace"}
          /\ JSON_FILE = Absent => BACKUP_FILE' = BACKUP_FILE ]_vars
  /\ []((wpc = "ret" /\ "backup" \in wfail /\ "replace" \notin wfail)
          => (wres = "ok" /\ JSON_FILE = Full(wdata)))

\* the copy failed and left a cut-short backup, the new snapshot replaced the old primary
C19_Witness ==
  /\ wpc = "ret" /\ wfail = {"backup"} /\ wres = "ok"
  /\ prePrimary.st = "full" /\ JSON_FILE # prePrimary /\ BACKUP_FILE = Partial

\* C13 (extractor cap): parse_market_from_html returns the records of the
\* rows with at least three parts, in document order: all of them when no
\* cap is set (max_rows = 0 stands for None), the first max_rows of them
\* otherwise, so never more than max_rows; none qualifying gives the empty list.
C13_ExtractorCap ==
  pc = "parsed" =>
    LET idx == { i \in 1 .. Len(markup) : Len(markup[i]) >= 3 }
        n == Cardinality(idx)
        k == IF max_rows = 0 THEN n ELSE Min(max_rows, n)
        pos(j) == CHOOSE i \in idx : Cardinality({ m \in idx : m <= i }) = j
    IN /\ Len(parsed) = k
       /\ max_rows # 0 => Len(parsed) <= max_rows
       /\ n = 0 => parsed = <<>>
       /\ \A j \in 1 .. k :
            parsed[j] = [pair |-> markup[pos(j)][1], price |-> markup[pos(j)][2],
                         change_24h |-> markup[pos(j)][3]]

\* cap 1, a placeholder row first, two qualifying rows: only the first of them is returned
C13_Witness ==
  /\ pc = "parsed" /\ max_rows = 1
  /\ markup = <<RowLoading, RowETH, RowBTC>>
  /\ Len(parsed) = 1 /\ parsed[1].pair = "ETH"

\* C14 (no lock across the write): while a save_json_atomic call of the loop
\* is running, the loop thread does not hold latest_data_lock.
C14_NoLockDuringWrite == wpc # "idle" => LoopThread \notin latest_data_lock

\* C15 (transient miss): a cycle whose extraction came back empty leaves
\* latest_data, the driver and backoff as they are, calls save_json_atomic
\* with the existing snapshot exactly when latest_data is non-empty (no file
\* changes when it is empty), and goes on to the idle poll, not to the
\* exception handler.
C15_TransientMiss ==
  [][ (pc = "copy" \/ pc = "resave") =>
        /\ latest_data' = latest_data
        /\ driver' = driver
        /\ backoff' = backoff
        /\ pc' \in {"copy", "resave", "poll"}
        /\ (pc = "copy" /\ pc' # "copy") =>
             /\ wpc' # "idle" <=> Truthy(latest_data)
             /\ wpc' # "idle" => wdata' = latest_data
        /\ ~Truthy(latest_data) => fileVars' = fileVars ]_vars

\* C16 (clean client after a failure): from the exception handler on, up to
\* and through the backoff sleep, no browser is held or left running, so the
\* cycle after a backoff starts a new one; while a cycle fetches, stores,
\* re-saves or polls a browser is held, and the cycle after the idle poll
\* goes straight to the fetch with that browser and starts none.
C16_CleanClient ==
  /\ [](pc \in {"errlock", "errsave", "sleep"} => (driver = "none" /\ clients = 0))
  /\ [](pc \in {"fetch", "store", "save", "copy", "resave", "poll"}
          => (driver = "live" /\ clients = 1))
  /\ [][ (pc = "sleep" /\ pc' # pc) => (pc' = "top" /\ driver' = "none") ]_vars
  /\ [][ (pc = "poll" /\ pc' # pc) =>
          (pc' = "top" /\ driver' = "live" /\ clients' = clients) ]_vars
  /\ [][ (pc = "top" /\ pc' # pc /\ ~stop_event) =>
          /\ driver = "none" => pc' = "create"
          /\ driver = "live" => (pc' = "fetch" /\ clients' = clients) ]_vars
  /\ [][ (pc = "create" /\ pc' = "get") => clients' = clients + 1 ]_vars

\* the fetch after two failed cycles, the second of which had data to re-save: a browser is held again
C16_Witness ==
  /\ pc = "fetch" /\ fails = 2 /\ driver = "live" /\ clients = 1
  /\ Truthy(latest_data)

\* C17 (re-persist on outage): the exception handler, before the backoff
\* sleep, calls save_json_atomic with latest_data exactly when latest_data is
\* non-empty (when it is empty it goes to the sleep and no file changes); the
\* sleep is entered only from there, after a call that completed os.replace
\* with JSON_FILE holding latest_data, and during the sleep neither changes.
C17_RepersistOnOutage ==
  /\ [][ (pc = "errlock" /\ pc' # pc) =>
          IF Truthy(latest_data)
          THEN pc' = "errsave" /\ wpc' = "mkstemp" /\ wdata' = latest_data
          ELSE pc' = "sleep" /\ wpc' = "idle" /\ fileVars' = fileVars ]_vars
  /\ [][ (pc' = "sleep" /\ pc # "sleep") =>
          \/ pc = "errlock" /\ ~Truthy(latest_data)
          \/ /\ pc = "errsave" /\ wpc = "ret"
             /\ wres = "ok" => JSON_FILE' = Full(latest_data') ]_vars
  /\ [][ (pc = "sleep") =>
          (JSON_FILE' = JSON_FILE /\ latest_data' = latest_data /\ wpc' = "idle") ]_vars

\* the re-save in the handler completed and brought a stale primary up to the store
C17_Witness ==
  /\ pc = "errsave" /\ wpc = "ret" /\ wres = "ok"
  /\ prePrimary # JSON_FILE /\ JSON_FILE = Full(latest_data)

\* C18 (a failed write does not touch the store): throughout a
\* save_json_atomic call of the loop, and in the step that takes its result,
\* latest_data is the snapshot the call was given, however the call ends;
\* after a failed call the loop does not keep the lock, so /latest goes on
\* serving that snapshot.
C18_FailureKeepsStore ==
  /\ [](wpc # "idle" => wdata = latest_data)
  /\ [][ (wpc # "idle") => latest_data' = latest_data ]_vars
  /\ [](pc \in {"poll", "except", "sleep", "raised"} => LoopThread \notin latest_data_lock)

\* the write of a new snapshot failed, the primary is older, and /latest serves the new one
C18_Witness ==
  /\ pc = "save" /\ wpc = "ret" /\ wres = "failed"
  /\ latest_data = wdata /\ JSON_FILE.st = "full" /\ JSON_FILE # Full(latest_data)
  /\ \E r \in Readers :
       rd[r].pc = "resp" /\ rd[r].status = 200 /\ rd[r].data = latest_data

\* C20 (single client, single writer): at most one browser started by the
\* loop is live, and it is the one the loop holds; one is started only when
\* none is live; latest_data changes only in the loop's replacement step,
\* save_json_atomic runs only as a call of the loop, with the store's current
\* snapshot as its data, and files change only inside such a call.
C20_SingleClientSingleWriter ==
  /\ [](clients <= 1 /\ (clients = 1 <=> driver = "live"))
  /\ [][ (clients' > clients) => (pc = "create" /\ clients = 0) ]_vars
  /\ [][ (latest_data' # latest_data) =>
          (pc = "store" /\ pc' = "save" /\ latest_data' = parsed) ]_vars
  /\ [](wpc # "idle" => (pc \in {"save", "resave", "errsave"} /\ wdata = latest_data))
  /\ [][ (wpc = "idle" /\ wpc' # "idle") => pc \in {"store", "copy", "errlock"} ]_vars
  /\ [][ (fileVars' # fileVars) => wpc # "idle" ]_vars

\* a re-save is about to rename while a request is being served and one browser is live
C20_Witness ==
  /\ pc = "resave" /\ wpc = "replace" /\ clients = 1 /\ nOk >= 1
  /\ \E r \in Readers : rd[r].pc = "data"

====
